---- MODULE Spec2Model ----
(***************************************************************************)
(* Street-network sampling scripts of the route planner:                   *)
(*   extraer_calles_reales.py  extraer_calles_ciudad                       *)
(*   crear_muestra_calles.py   crear_muestra_calles, crear_muestra_centro  *)
(*                                                                         *)
(* One run of a function is a sequence of steps, one per block of the      *)
(* function body; pc names the block that runs next.  The file system is   *)
(* two slots: archivo_original (the dataset the extractor writes and the   *)
(* samplers read) and archivo_muestra (the samplers' output).  A slot is   *)
(* <<>> when the file does not exist and <<d>> when it holds dataset d.    *)
(*                                                                         *)
(* Coordinates are in hundredths of a degree, distances in metres,         *)
(* printed ratios in hundredths.                                           *)
(***************************************************************************)
EXTENDS Integers, Sequences, FiniteSets

\* ------------------------------------------------------------------ bounds
MaxNodes == 3
MaxEdges == 2

\* ------------------------------------------------------------ input domains
\* Nodes of the graphs the map provider can return (id, y = lat, x = lon).
GNodoA == [id |-> 1001, y |-> 0, x |-> 0]
GNodoB == [id |-> 1002, y |-> 0, x |-> 1]
GNodoC == [id |-> 1003, y |-> 1000, x |-> 1000]
GNodos == {GNodoA, GNodoB, GNodoC}

Ciudades == {"Culiacan, Sinaloa, Mexico", "Mazatlan, Sinaloa, Mexico"}
MaxNodosArgs == (0 - 1) .. (MaxNodes + 1)
Centros == {<<0, 0>>, <<1000, 1000>>}
Radios == {0 - 1, 0, 1, 5, 2000}

Range(s) == {s[i] : i \in DOMAIN s}
Injective(s) == \A i, j \in DOMAIN s : s[i] = s[j] => i = j
SeqsUpTo(S, n) == UNION {[1 .. k -> S] : k \in 0 .. n}
Min(a, b) == IF a <= b THEN a ELSE b

\* A graph: distinct nodes, directed edges (parallel edges allowed, loops
\* left out) between nodes of the graph.
Grafos ==
    {[nodes |-> ns, edges |-> es] :
        ns \in {s \in SeqsUpTo(GNodos, MaxNodes) : Injective(s)},
        es \in SeqsUpTo({[u |-> a, v |-> b] : a, b \in {n.id : n \in GNodos}}, MaxEdges)}

GrafosValidos ==
    {g \in Grafos :
        \A i \in DOMAIN g.edges :
            /\ g.edges[i].u \in {n.id : n \in Range(g.nodes)}
            /\ g.edges[i].v \in {n.id : n \in Range(g.nodes)}
            /\ g.edges[i].u # g.edges[i].v}

\* ------------------------------------------------------------ pure helpers
\* calcular_distancia on the coordinates of the domain: the value of the
\* haversine formula with R = 6371000, rounded up to a whole metre (so that
\* d <= r holds for the real d exactly when it holds for the entry, r being
\* a whole number of metres).  0.0 is exact for coincident points.
calcular_distancia(lat1, lon1, lat2, lon2) ==
    LET p == <<lat1, lon1>>
        q == <<lat2, lon2>>
        A == <<0, 0>>
        B == <<0, 1>>
        C == <<1000, 1000>>
    IN  CASE p = q -> 0
          [] {p, q} = {A, B} -> 1112
          [] {p, q} = {A, C} -> 1568521
          [] {p, q} = {B, C} -> 1567741

\* faulty variant: draws with replacement
random_sample_ConReemplazo(population, k) ==
    {[i \in 1 .. k |-> population[pos[i]]] : pos \in [1 .. k -> 1 .. Len(population)]}

\* random.sample(population, k): every sequence of k pairwise distinct
\* positions of the population is a possible draw.
random_sample(population, k) ==
    {[i \in 1 .. k |-> population[pos[i]]] :
        pos \in {s \in [1 .. k -> 1 .. Len(population)] : Injective(s)}}

\* {nodo['id'] for nodo in nodos}
IdsDe(nodos) == {nodos[i].id : i \in DOMAIN nodos}

\* faulty variant: tests the origin only
FiltrarAristas_SoloOrigen(edges, ids) ==
    SelectSeq(edges, LAMBDA arista : arista.from \in ids)

\* faulty variant: keeps an edge with either end selected
FiltrarAristas_AlgunExtremo(edges, ids) ==
    SelectSeq(edges, LAMBDA arista : arista.from \in ids \/ arista.to \in ids)

\* the loop over data['edges'] appending the edges with both ends selected
FiltrarAristas(edges, ids) ==
    SelectSeq(edges, LAMBDA arista : arista.from \in ids /\ arista.to \in ids)

\* faulty variant: excludes the boundary
FiltrarNodos_Estricto(nodes, centro_lat, centro_lon, radio_km) ==
    LET radio_metros == radio_km * 1000
    IN  SelectSeq(nodes, LAMBDA nodo :
            calcular_distancia(centro_lat, centro_lon, nodo.lat, nodo.lon) < radio_metros)

\* faulty variant: comparison the wrong way round
FiltrarNodos_Invertido(nodes, centro_lat, centro_lon, radio_km) ==
    LET radio_metros == radio_km * 1000
    IN  SelectSeq(nodes, LAMBDA nodo :
            calcular_distancia(centro_lat, centro_lon, nodo.lat, nodo.lon) >= radio_metros)

\* the loop over data['nodes'] appending the nodes within the radius
FiltrarNodos(nodes, centro_lat, centro_lon, radio_km) ==
    LET radio_metros == radio_km * 1000
    IN  SelectSeq(nodes, LAMBDA nodo :
            calcular_distancia(centro_lat, centro_lon, nodo.lat, nodo.lon) <= radio_metros)

\* a / b printed with two decimals, as hundredths (b # 0)
Ratio2(a, b) == (200 * a + b) \div (2 * b)

\* ------------------------------------------------------------------- state
VARIABLES
    pc,                \* block of the running function that executes next
    op,                \* the running function: "extraer", "calles", "centro" or ""
    args,              \* arguments of the running call
    G,                 \* graph returned by the map provider (extractor run)
    archivo_original,  \* file slot: full dataset
    archivo_muestra,   \* file slot: sample dataset
    data,              \* <<json.load(f)>> once loaded
    nodos,             \* nodos_muestra / nodos_centro / nodes
    aristas,           \* aristas_muestra / aristas_centro / edges
    muestra,           \* <<muestra>> / <<muestra_centro>> / <<dataset>> once built
    reporte,           \* <<statistics printed>> once printed
    error              \* exception that ended the run, "" if none

vars == <<pc, op, args, G, archivo_original, archivo_muestra, data, nodos, aristas,
          muestra, reporte, error>>

NoArgs == [max_nodos |-> 0, centro_lat |-> 0, centro_lon |-> 0, radio_km |-> 0,
           ciudad |-> ""]
NoGrafo == [nodes |-> <<>>, edges |-> <<>>]

Locals0 ==
    /\ data = <<>>
    /\ nodos = <<>>
    /\ aristas = <<>>
    /\ muestra = <<>>
    /\ reporte = <<>>
    /\ error = ""

Init ==
    /\ pc = "idle"
    /\ op = ""
    /\ args = NoArgs
    /\ G = NoGrafo
    /\ archivo_original = <<>>
    /\ archivo_muestra = <<>>
    /\ Locals0

\* ------------------------------------------------- extraer_calles_ciudad
\* The extractor runs while no dataset file exists yet (one extraction, then
\* any number of sampling runs over its file).
Call_extraer_calles_ciudad ==
    /\ pc = "idle"
    /\ archivo_original = <<>>
    /\ \E ciudad \in Ciudades, g \in GrafosValidos :
        /\ args' = [NoArgs EXCEPT !.ciudad = ciudad]
        /\ G' = g
    /\ pc' = "extraer_convert"
    /\ op' = "extraer"
    /\ UNCHANGED <<archivo_original, archivo_muestra, data, nodos, aristas,
                   muestra, reporte, error>>

NodoDe(gn) == [id |-> gn.id, lat |-> gn.y, lon |-> gn.x]
AristaDe(ge) == [from |-> ge.u, to |-> ge.v]

extraer_convert ==
    /\ pc = "extraer_convert"
    /\ nodos' = [i \in DOMAIN G.nodes |-> NodoDe(G.nodes[i])]
    /\ aristas' = [i \in DOMAIN G.edges |-> AristaDe(G.edges[i])]
    /\ pc' = "extraer_build"
    /\ UNCHANGED <<op, args, G, archivo_original, archivo_muestra, data, muestra,
                   reporte, error>>

DatasetExtraer(ciudad, nodes, edges) ==
    [description |-> <<"Red de calles de", ciudad>>,
     nodes |-> nodes,
     edges |-> edges,
     metadata |->
        [city |-> ciudad,
         source |-> "OpenStreetMap via OSMnx",
         extracted_date |-> "2024-01-15",
         total_nodes |-> Len(nodes),
         total_edges |-> Len(edges),
         network_type |-> "drive",
         simplified |-> TRUE]]

extraer_build ==
    /\ pc = "extraer_build"
    /\ muestra' = <<DatasetExtraer(args.ciudad, nodos, aristas)>>
    /\ pc' = "extraer_write"
    /\ UNCHANGED <<op, args, G, archivo_original, archivo_muestra, data, nodos,
                   aristas, reporte, error>>

extraer_write ==
    /\ pc = "extraer_write"
    /\ archivo_original' = muestra
    /\ pc' = "extraer_report"
    /\ UNCHANGED <<op, args, G, archivo_muestra, data, nodos, aristas, muestra,
                   reporte, error>>

\* The statistics printed after the file is written.  Evaluating
\* len(edges)/len(nodes) raises ZeroDivisionError when there is no node.
ReporteExtraer(nodes, edges) ==
    IF Len(nodes) = 0
    THEN [error |-> "ZeroDivisionError", reporte |-> <<>>]
    ELSE [error |-> "",
          reporte |-> <<[nodos |-> Len(nodes), aristas |-> Len(edges),
                         densidad |-> Ratio2(Len(edges), Len(nodes))]>>]

extraer_report ==
    /\ pc = "extraer_report"
    /\ LET r == ReporteExtraer(nodos, aristas)
       IN  /\ error' = r.error
           /\ reporte' = r.reporte
           /\ pc' = IF r.error = "" THEN "done" ELSE "error"
    /\ UNCHANGED <<op, args, G, archivo_original, archivo_muestra, data, nodos,
                   aristas, muestra>>

\* --------------------------------------------------- crear_muestra_calles
Call_crear_muestra_calles ==
    /\ pc = "idle"
    /\ \E max_nodos \in MaxNodosArgs :
        args' = [NoArgs EXCEPT !.max_nodos = max_nodos]
    /\ pc' = "calles_open"
    /\ op' = "calles"
    /\ UNCHANGED <<G, archivo_original, archivo_muestra, data, nodos, aristas,
                   muestra, reporte, error>>

\* with open(archivo_original) as f: data = json.load(f)
calles_open ==
    /\ pc = "calles_open"
    /\ IF archivo_original = <<>>
       THEN /\ error' = "FileNotFoundError"
            /\ pc' = "error"
            /\ UNCHANGED data
       ELSE /\ data' = archivo_original
            /\ pc' = "calles_sample"
            /\ UNCHANGED error
    /\ UNCHANGED <<op, args, G, archivo_original, archivo_muestra, nodos, aristas,
                   muestra, reporte>>

\* number of nodes asked of random.sample
TamanoMuestra(max_nodos, nodos_originales) == Min(max_nodos, Len(nodos_originales))

\* random.sample raises ValueError on a negative sample size
calles_sample ==
    /\ pc = "calles_sample"
    /\ LET nodos_originales == data[1].nodes
           k == TamanoMuestra(args.max_nodos, nodos_originales)
       IN  IF k < 0
           THEN /\ error' = "ValueError"
                /\ pc' = "error"
                /\ UNCHANGED nodos
           ELSE /\ nodos' \in random_sample(nodos_originales, k)
                /\ pc' = "calles_filter"
                /\ UNCHANGED error
    /\ UNCHANGED <<op, args, G, archivo_original, archivo_muestra, data, aristas,
                   muestra, reporte>>

calles_filter ==
    /\ pc = "calles_filter"
    /\ aristas' = FiltrarAristas(data[1].edges, IdsDe(nodos))
    /\ pc' = "calles_build"
    /\ UNCHANGED <<op, args, G, archivo_original, archivo_muestra, data, nodos,
                   muestra, reporte, error>>

\* faulty variant: counts copied from the original dataset
MuestraCalles_TotalesOriginales(d, nodos_muestra, aristas_muestra, max_nodos) ==
    [description |-> <<"Muestra de", max_nodos, "nodos del dataset completo">>,
     nodes |-> nodos_muestra,
     edges |-> aristas_muestra,
     metadata |->
        [city |-> "Culiacan, Sinaloa, Mexico",
         source |-> "OpenStreetMap via OSMnx",
         extracted_date |-> "2024-01-15",
         total_nodes |-> d.metadata.total_nodes,
         total_edges |-> d.metadata.total_edges,
         network_type |-> "drive",
         sample_size |-> max_nodos,
         original_nodes |-> Len(d.nodes),
         original_edges |-> Len(d.edges)]]

MuestraCalles(d, nodos_muestra, aristas_muestra, max_nodos) ==
    [description |-> <<"Muestra de", max_nodos, "nodos del dataset completo">>,
     nodes |-> nodos_muestra,
     edges |-> aristas_muestra,
     metadata |->
        [city |-> "Culiacan, Sinaloa, Mexico",
         source |-> "OpenStreetMap via OSMnx",
         extracted_date |-> "2024-01-15",
         total_nodes |-> Len(nodos_muestra),
         total_edges |-> Len(aristas_muestra),
         network_type |-> "drive",
         sample_size |-> max_nodos,
         original_nodes |-> Len(d.nodes),
         original_edges |-> Len(d.edges)]]

calles_build ==
    /\ pc = "calles_build"
    /\ muestra' = <<MuestraCalles(data[1], nodos, aristas, args.max_nodos)>>
    /\ pc' = "calles_write"
    /\ UNCHANGED <<op, args, G, archivo_original, archivo_muestra, data, nodos,
                   aristas, reporte, error>>

\* with open(archivo_muestra, 'w') as f: json.dump(muestra, f)
calles_write ==
    /\ pc = "calles_write"
    /\ archivo_muestra' = muestra
    /\ pc' = "calles_report"
    /\ UNCHANGED <<op, args, G, archivo_original, data, nodos, aristas, muestra,
                   reporte, error>>

\* The statistics printed after the file is written: density, then the
\* share of the original nodes (in tenths of a percent).
ReporteCalles(d, nodos_muestra, aristas_muestra) ==
    IF Len(nodos_muestra) = 0 \/ Len(d.nodes) = 0
    THEN [error |-> "ZeroDivisionError", reporte |-> <<>>]
    ELSE [error |-> "",
          reporte |-> <<[nodos |-> Len(nodos_muestra),
                         aristas |-> Len(aristas_muestra),
                         densidad |-> Ratio2(Len(aristas_muestra), Len(nodos_muestra)),
                         reduccion |-> Ratio2(1000 * Len(nodos_muestra), Len(d.nodes))]>>]

calles_report ==
    /\ pc = "calles_report"
    /\ LET r == ReporteCalles(data[1], nodos, aristas)
       IN  /\ error' = r.error
           /\ reporte' = r.reporte
           /\ pc' = IF r.error = "" THEN "done" ELSE "error"
    /\ UNCHANGED <<op, args, G, archivo_original, archivo_muestra, data, nodos,
                   aristas, muestra>>

\* --------------------------------------------------- crear_muestra_centro
Call_crear_muestra_centro ==
    /\ pc = "idle"
    /\ \E centro \in Centros, radio_km \in Radios :
        args' = [NoArgs EXCEPT !.centro_lat = centro[1], !.centro_lon = centro[2],
                               !.radio_km = radio_km]
    /\ pc' = "centro_open"
    /\ op' = "centro"
    /\ UNCHANGED <<G, archivo_original, archivo_muestra, data, nodos, aristas,
                   muestra, reporte, error>>

centro_open ==
    /\ pc = "centro_open"
    /\ IF archivo_original = <<>>
       THEN /\ error' = "FileNotFoundError"
            /\ pc' = "error"
            /\ UNCHANGED data
       ELSE /\ data' = archivo_original
            /\ pc' = "centro_select"
            /\ UNCHANGED error
    /\ UNCHANGED <<op, args, G, archivo_original, archivo_muestra, nodos, aristas,
                   muestra, reporte>>

centro_select ==
    /\ pc = "centro_select"
    /\ nodos' = FiltrarNodos(data[1].nodes, args.centro_lat, args.centro_lon,
                             args.radio_km)
    /\ pc' = "centro_filter"
    /\ UNCHANGED <<op, args, G, archivo_original, archivo_muestra, data, aristas,
                   muestra, reporte, error>>

centro_filter ==
    /\ pc = "centro_filter"
    /\ aristas' = FiltrarAristas(data[1].edges, IdsDe(nodos))
    /\ pc' = "centro_build"
    /\ UNCHANGED <<op, args, G, archivo_original, archivo_muestra, data, nodos,
                   muestra, reporte, error>>

MuestraCentro(d, nodos_centro, aristas_centro, centro_lat, centro_lon, radio_km) ==
    [description |-> <<"Muestra centrada en", centro_lat, centro_lon, "con radio de",
                       radio_km, "km">>,
     nodes |-> nodos_centro,
     edges |-> aristas_centro,
     metadata |->
        [city |-> "Culiacan, Sinaloa, Mexico",
         source |-> "OpenStreetMap via OSMnx",
         extracted_date |-> "2024-01-15",
         total_nodes |-> Len(nodos_centro),
         total_edges |-> Len(aristas_centro),
         network_type |-> "drive",
         center_lat |-> centro_lat,
         center_lon |-> centro_lon,
         radius_km |-> radio_km,
         original_nodes |-> Len(d.nodes),
         original_edges |-> Len(d.edges)]]

centro_build ==
    /\ pc = "centro_build"
    /\ muestra' = <<MuestraCentro(data[1], nodos, aristas, args.centro_lat,
                                  args.centro_lon, args.radio_km)>>
    /\ pc' = "centro_write"
    /\ UNCHANGED <<op, args, G, archivo_original, archivo_muestra, data, nodos,
                   aristas, reporte, error>>

centro_write ==
    /\ pc = "centro_write"
    /\ archivo_muestra' = muestra
    /\ pc' = "centro_report"
    /\ UNCHANGED <<op, args, G, archivo_original, data, nodos, aristas, muestra,
                   reporte, error>>

ReporteCentro(nodos_centro, aristas_centro) ==
    IF Len(nodos_centro) = 0
    THEN [error |-> "ZeroDivisionError", reporte |-> <<>>]
    ELSE [error |-> "",
          reporte |-> <<[nodos |-> Len(nodos_centro),
                         aristas |-> Len(aristas_centro),
                         densidad |-> Ratio2(Len(aristas_centro), Len(nodos_centro))]>>]

centro_report ==
    /\ pc = "centro_report"
    /\ LET r == ReporteCentro(nodos, aristas)
       IN  /\ error' = r.error
           /\ reporte' = r.reporte
           /\ pc' = IF r.error = "" THEN "done" ELSE "error"
    /\ UNCHANGED <<op, args, G, archivo_original, archivo_muestra, data, nodos,
                   aristas, muestra>>

\* ------------------------------------------------------------ end of a run
\* The function returns or the exception reaches the caller: the locals are
\* gone, the files stay.  Later runs never read archivo_muestra, so what an
\* earlier run left there is kept only as the placeholder Previo.
Previo == [description |-> <<"previo">>]

Return ==
    /\ pc \in {"done", "error"}
    /\ pc' = "idle"
    /\ op' = ""
    /\ args' = NoArgs
    /\ G' = NoGrafo
    /\ archivo_muestra' = IF archivo_muestra = <<>> THEN <<>> ELSE <<Previo>>
    /\ data' = <<>>
    /\ nodos' = <<>>
    /\ aristas' = <<>>
    /\ muestra' = <<>>
    /\ reporte' = <<>>
    /\ error' = ""
    /\ UNCHANGED archivo_original

Next ==
    \/ Call_extraer_calles_ciudad
    \/ extraer_convert
    \/ extraer_build
    \/ extraer_write
    \/ extraer_report
    \/ Call_crear_muestra_calles
    \/ calles_open
    \/ calles_sample
    \/ calles_filter
    \/ calles_build
    \/ calles_write
    \/ calles_report
    \/ Call_crear_muestra_centro
    \/ centro_open
    \/ centro_select
    \/ centro_filter
    \/ centro_build
    \/ centro_write
    \/ centro_report
    \/ Return

Spec == Init /\ [][Next]_vars

\* ============================================================== properties
Muestreo == op \in {"calles", "centro"}

\* positions of a sampling run after the node selection / the edge filter /
\* the write (a run that ended in ZeroDivisionError got past all three)
PostSeleccion ==
    {"calles_filter", "calles_build", "calles_write", "calles_report",
     "centro_filter", "centro_build", "centro_write", "centro_report", "done"}
PostFiltro ==
    {"calles_build", "calles_write", "calles_report",
     "centro_build", "centro_write", "centro_report", "done"}
PostEscritura == {"calles_report", "centro_report", "done"}

Seleccionado == Muestreo /\ (pc \in PostSeleccion \/ error = "ZeroDivisionError")
Filtrado == Muestreo /\ (pc \in PostFiltro \/ error = "ZeroDivisionError")
Escrito == Muestreo /\ (pc \in PostEscritura \/ error = "ZeroDivisionError")

\* datasets a sampling run has built or written
SalidasMuestreo ==
    (Range(archivo_muestra) \ {Previo}) \cup (IF Muestreo THEN Range(muestra) ELSE {})

\* every dataset value built or written by any of the three functions
Producidos == SalidasMuestreo \cup Range(muestra) \cup Range(archivo_original)

\* sub is seq restricted, in order and with multiplicity, to the positions
\* in keep
EsRestriccion(sub, seq, keep) ==
    \E f \in [DOMAIN sub -> DOMAIN seq] :
        /\ \A i, j \in DOMAIN sub : i < j => f[i] < f[j]
        /\ \A i \in DOMAIN sub : sub[i] = seq[f[i]]
        /\ {f[i] : i \in DOMAIN sub} = keep

\* C1: in every dataset built or written by crear_muestra_calles and
\* crear_muestra_centro, each edge's 'from' and 'to' is the id of a node of
\* that same dataset.
C1_SubsetInvariant ==
    \A d \in SalidasMuestreo :
        \A i \in DOMAIN d.edges :
            d.edges[i].from \in IdsDe(d.nodes) /\ d.edges[i].to \in IdsDe(d.nodes)

\* a finished sampling run that kept one edge and dropped another whose end
\* was not selected
C1_Witness ==
    /\ Muestreo
    /\ pc = "done"
    /\ archivo_muestra = muestra
    /\ Len(archivo_muestra[1].edges) >= 1
    /\ \E i \in DOMAIN data[1].edges :
          data[1].edges[i].to \notin IdsDe(archivo_muestra[1].nodes)

\* C2: in every dataset value produced by the three functions,
\* metadata.total_nodes = len(nodes) and metadata.total_edges = len(edges).
C2_CountInvariant ==
    \A d \in Producidos :
        /\ d.metadata.total_nodes = Len(d.nodes)
        /\ d.metadata.total_edges = Len(d.edges)

\* a written sample with fewer nodes and fewer edges than its original
C2_Witness ==
    /\ op = "calles"
    /\ pc = "done"
    /\ archivo_muestra = muestra
    /\ Len(muestra[1].nodes) < Len(data[1].nodes)
    /\ Len(muestra[1].edges) < Len(data[1].edges)
    /\ Len(muestra[1].nodes) > 0

\* C3: for max_nodos >= 0 the random sampler raises nothing and selects
\* exactly min(max_nodos, len(nodes)) nodes, at pairwise distinct positions
\* of the input node list.
C3_SamplerBound ==
    (op = "calles" /\ args.max_nodos >= 0) =>
        /\ error # "ValueError"
        /\ Seleccionado =>
            /\ Len(nodos) = Min(args.max_nodos, Len(data[1].nodes))
            /\ \E pos \in [DOMAIN nodos -> DOMAIN data[1].nodes] :
                  /\ \A i, j \in DOMAIN nodos : pos[i] = pos[j] => i = j
                  /\ \A i \in DOMAIN nodos : nodos[i] = data[1].nodes[pos[i]]

\* two of three nodes drawn, not in input order
C3_Witness ==
    /\ op = "calles"
    /\ pc = "calles_filter"
    /\ args.max_nodos = 2
    /\ Len(data[1].nodes) = 3
    /\ nodos = <<data[1].nodes[3], data[1].nodes[1]>>

\* C4: in both sampling functions the retained edges are exactly the input
\* edges with both ends in the selected id set, in input order and with
\* their multiplicity.
C4_EdgeFilterExact ==
    Filtrado =>
        EsRestriccion(aristas, data[1].edges,
            {j \in DOMAIN data[1].edges :
                /\ data[1].edges[j].from \in IdsDe(nodos)
                /\ data[1].edges[j].to \in IdsDe(nodos)})

\* the first of two input edges dropped, the second kept
C4_Witness ==
    /\ Filtrado
    /\ Len(data[1].edges) = 2
    /\ aristas = <<data[1].edges[2]>>
    /\ data[1].edges[1] # data[1].edges[2]

EscA == [id |-> 1001, lat |-> 0, lon |-> 0]
EscB == [id |-> 1002, lat |-> 0, lon |-> 1]
EscC == [id |-> 1003, lat |-> 1000, lon |-> 1000]
EscAB == [from |-> 1001, to |-> 1002]
EscBC == [from |-> 1002, to |-> 1003]

\* nodes A(0,0), B(0,0.01), C(10,10), edges A-B and B-C, filtered 5 km
\* around (0,0)
Escenario ==
    /\ op = "centro"
    /\ Filtrado
    /\ data[1].nodes = <<EscA, EscB, EscC>>
    /\ data[1].edges = <<EscAB, EscBC>>
    /\ args.centro_lat = 0
    /\ args.centro_lon = 0
    /\ args.radio_km = 5

\* C5: crear_muestra_centro keeps exactly the nodes at distance
\* <= radio_km * 1000 m of the center (boundary included), in input order;
\* in the scenario it yields nodes [A, B] and the edge A-B alone.
C5_RadiusFilter ==
    /\ (op = "centro" /\ Seleccionado) =>
          EsRestriccion(nodos, data[1].nodes,
              {j \in DOMAIN data[1].nodes :
                  calcular_distancia(args.centro_lat, args.centro_lon,
                                     data[1].nodes[j].lat, data[1].nodes[j].lon)
                      <= args.radio_km * 1000})
    /\ Escenario => (nodos = <<EscA, EscB>> /\ aristas = <<EscAB>>)

\* the scenario, run to the end
C5_Witness == Escenario /\ pc = "done" /\ archivo_muestra = muestra

\* C6: with the same dataset and center, a smaller radius selects a subset
\* of the nodes, and so retains a subset of the edges, of a larger one.
C6_RadiusMonotone ==
    (op = "centro" /\ Filtrado) =>
        \A r \in Radios :
            LET ns == FiltrarNodos(data[1].nodes, args.centro_lat, args.centro_lon, r)
                es == FiltrarAristas(data[1].edges, IdsDe(ns))
            IN  /\ r < args.radio_km =>
                      (Range(ns) \subseteq Range(nodos) /\ Range(es) \subseteq Range(aristas))
                /\ args.radio_km < r =>
                      (Range(nodos) \subseteq Range(ns) /\ Range(aristas) \subseteq Range(es))

\* a run whose selection strictly contains the non-empty selection of a
\* smaller radius, nodes and edges
C6_Witness ==
    /\ op = "centro"
    /\ pc = "done"
    /\ \E r \in Radios :
        LET ns == FiltrarNodos(data[1].nodes, args.centro_lat, args.centro_lon, r)
            es == FiltrarAristas(data[1].edges, IdsDe(ns))
        IN  /\ r < args.radio_km
            /\ ns # <<>>
            /\ Range(ns) # Range(nodos)
            /\ es # <<>>
            /\ Range(es) # Range(aristas)

\* a run that has returned, or has raised after its selection step
Terminado == pc \in {"done", "error"} /\ error \notin {"FileNotFoundError", "ValueError"}

\* C7: whenever max_nodos >= len(nodes), crear_muestra_calles raises no
\* error, selects every input node and nothing else, and retains every
\* input edge.
C7_ClippingFullSet ==
    (op = "calles" /\ data # <<>> /\ args.max_nodos >= Len(data[1].nodes)) =>
        /\ error = ""
        /\ Seleccionado =>
              (Len(nodos) = Len(data[1].nodes) /\ Range(nodos) = Range(data[1].nodes))
        /\ Filtrado => aristas = data[1].edges

\* C8: a sampling run whose selection has no node, or whose edge filter
\* keeps no edge, ends without an error, having written a dataset with the
\* empty lists and the matching zero counts.
C8_EmptySelectionValid ==
    (Muestreo /\ Terminado /\ (nodos = <<>> \/ aristas = <<>>)) =>
        /\ pc = "done"
        /\ error = ""
        /\ archivo_muestra = muestra
        /\ archivo_muestra[1].nodes = nodos
        /\ archivo_muestra[1].edges = aristas
        /\ archivo_muestra[1].metadata.total_nodes = Len(nodos)
        /\ archivo_muestra[1].metadata.total_edges = Len(aristas)

\* C9: in every run of the three functions whose reduced node list is empty
\* no division by zero occurs and the density is reported as zero; for 4
\* nodes and 6 edges the density is 1.50.
C9_DensityGuard ==
    /\ (op # "" /\ Terminado /\ nodos = <<>>) =>
          /\ error # "ZeroDivisionError"
          /\ reporte # <<>>
          /\ reporte[1].densidad = 0
    /\ Ratio2(6, 4) = 150

\* C10: the sample's metadata carries the original's city, source,
\* network_type and extracted_date, and records the selection parameters.
C10_StaticMetadata ==
    (Muestreo /\ muestra # <<>>) =>
        LET m == muestra[1].metadata
            o == data[1].metadata
        IN  /\ m.city = o.city
            /\ m.source = o.source
            /\ m.network_type = o.network_type
            /\ m.extracted_date = o.extracted_date
            /\ op = "calles" =>
                  /\ m.sample_size = args.max_nodos
                  /\ m.original_nodes = Len(data[1].nodes)
                  /\ m.original_edges = Len(data[1].edges)
            /\ op = "centro" =>
                  /\ m.center_lat = args.centro_lat
                  /\ m.center_lon = args.centro_lon
                  /\ m.radius_km = args.radio_km

\* the sample file holds nothing the running call wrote: it is absent or
\* still what an earlier run left
SinEscribir == archivo_muestra \in {<<>>, <<Previo>>}

\* C11: a sampling run writes the output file only after loading, selecting,
\* filtering and building the dataset; a run that ends in an error has not
\* written the file, so a run that has written it does not end in an error.
C11_WriteOnlyAfterSuccess ==
    Muestreo =>
        /\ ~SinEscribir =>
              /\ data # <<>>
              /\ Filtrado
              /\ muestra # <<>>
              /\ archivo_muestra = muestra
        /\ pc = "error" => SinEscribir

\* the call's arguments are out of range: max_nodos <= 0, or a negative
\* radio_km
ParametrosInvalidos ==
    \/ op = "calles" /\ args.max_nodos <= 0
    \/ op = "centro" /\ args.radio_km < 0

\* C12: a call with max_nodos <= 0 or with a negative radio_km ends in an
\* error raised before any selection is made and writes no output dataset;
\* it never returns normally.  (Any exception raised before the selection
\* is counted as the rejection.)
C12_ParameterMisuseRejected ==
    ParametrosInvalidos =>
        /\ ~Seleccionado
        /\ SinEscribir
        /\ pc # "done"

====
